---- MODULE Spec2Model ----
(***************************************************************************)
(* A model of scikit-bandit: the ExploreThenCommitBandit player, the       *)
(* stochastic and adversarial multi-armed environments and the experiment  *)
(* loop that couples a bandit with an environment.                         *)
(*                                                                         *)
(* Python lists indexed by arm are functions over 0 .. n_arms - 1, rewards *)
(* are integers, and an optional value is None (the empty sequence) or     *)
(* Some(x) (the one-element sequence).                                     *)
(***************************************************************************)
EXTENDS Integers, Sequences, FiniteSets, TLC

VARIABLES bandit, ctor, env, experiment, last, pulls, commit_totals, decided

vars == <<bandit, ctor, env, experiment, last, pulls, commit_totals, decided>>

(***************************************************************************)
(* Bounds of the model.                                                    *)
(***************************************************************************)
MaxArms == 2
MaxEpochs == 2
MaxReward == 1
MaxRewards == 3
MaxExtra == 3

(***************************************************************************)
(* Python values.                                                          *)
(***************************************************************************)
None == <<>>
Some(x) == <<x>>
Val(o) == o[1]

Arms(n) == 0 .. n - 1
Values == 0 .. MaxReward

\* list(...)[i]: the 0-based position a Python index denotes; an index
\* outside -len .. len - 1 raises IndexError.
ValidIndex(n, i) == i >= 0 - n /\ i < n
Position(n, i) == IF i < 0 THEN i + n ELSE i

\* sum(...) over the arms.
RECURSIVE SumUpTo(_, _)
SumUpTo(f, k) == IF k < 0 THEN 0 ELSE f[k] + SumUpTo(f, k - 1)
Sum(f, n) == SumUpTo(f, n - 1)

\* max(list)
Max(f) == CHOOSE v \in {f[a] : a \in DOMAIN f} : \A a \in DOMAIN f : f[a] <= v

\* list.index(v): the first position holding v.
Index(f, v) == CHOOSE a \in DOMAIN f : f[a] = v /\ \A b \in DOMAIN f : b < a => f[b] # v

(***************************************************************************)
(* RewardAccumulatorMixin                                                  *)
(***************************************************************************)
AccumulatorInit(n_arms) ==
    [arm_counts |-> [a \in Arms(n_arms) |-> 0],
     total_rewards |-> [a \in Arms(n_arms) |-> 0]]

\* An accumulator that counts the reward instead of the call.
AccumulatorRewardCountsValue(b, arm, reward) ==
    IF ValidIndex(b.n_arms, arm)
    THEN LET p == Position(b.n_arms, arm)
         IN [bandit |-> [b EXCEPT !.arm_counts[p] = @ + reward,
                                  !.total_rewards[p] = @ + reward],
             raised |-> "none"]
    ELSE [bandit |-> b, raised |-> "IndexError"]

\* RewardAccumulatorMixin.reward: the outcome is the bandit after the call
\* and the exception raised, if any.
AccumulatorReward(b, arm, reward) ==
    IF ValidIndex(b.n_arms, arm)
    THEN LET p == Position(b.n_arms, arm)
         IN [bandit |-> [b EXCEPT !.arm_counts[p] = @ + 1,
                                  !.total_rewards[p] = @ + reward],
             raised |-> "none"]
    ELSE [bandit |-> b, raised |-> "IndexError"]

(***************************************************************************)
(* ExploreThenCommitBandit                                                 *)
(***************************************************************************)
\* floor(256 * e^k) for k = 1 .. 12: for a whole gap g and horizon h,
\* (4 / g^2) * ln(h * g^2 / 4) <= n iff (h * g^2)^4 <= 256 * e^(n * g^2).
ExpTable ==
    <<695, 1891, 5141, 13977, 37993, 103277, 280738, 763125, 2074389, 5638775,
      15327780, 41665226>>

\* max(1, ceil((4 / gap^2) * ln(horizon * gap^2 / 4))): the least n >= 1 that
\* is not below the product.
ComputedEpochs(gap, horizon) ==
    LET g2 == gap * gap
        q == horizon * g2
        q4 == q * q * q * q
    IN CHOOSE n \in 1 .. (Len(ExpTable) \div g2) :
           /\ q4 <= ExpTable[n * g2]
           /\ \A m \in 1 .. n - 1 : q4 > ExpTable[m * g2]

\* A constructor that prefers an explicit n_epochs to the computed one.
EpochsOfExplicitFirst(n_epochs, gap, horizon) ==
    IF n_epochs # None THEN Val(n_epochs)
    ELSE IF gap # None /\ horizon # None THEN ComputedEpochs(Val(gap), Val(horizon))
    ELSE 1

EpochsOf(n_epochs, gap, horizon) ==
    IF gap # None /\ horizon # None THEN ComputedEpochs(Val(gap), Val(horizon))
    ELSE IF n_epochs # None THEN Val(n_epochs)
    ELSE 1

ETCInit(n_arms, n_epochs, gap, horizon) ==
    [n_arms |-> n_arms,
     arm_counts |-> AccumulatorInit(n_arms).arm_counts,
     total_rewards |-> AccumulatorInit(n_arms).total_rewards,
     current_round |-> 0,
     best_arm |-> None,
     n_epochs |-> EpochsOf(n_epochs, gap, horizon),
     n_remaining_epochs |-> EpochsOf(n_epochs, gap, horizon)]

NextRound(b) ==
    LET r == b.current_round + 1
    IN [b EXCEPT !.current_round = r,
                 !.n_remaining_epochs = IF r % b.n_arms = 0 THEN @ - 1 ELSE @]

\* An exploration phase that lasts one pull too long.
InExplorationInclusive(b) == b.current_round <= b.n_arms * b.n_epochs

InExploration(b) == b.current_round < b.n_arms * b.n_epochs

\* The last arm of maximal total reward instead of the first.
BestArmLast(b) ==
    CHOOSE a \in Arms(b.n_arms) :
        /\ b.total_rewards[a] = Max(b.total_rewards)
        /\ \A c \in Arms(b.n_arms) : c > a => b.total_rewards[c] # Max(b.total_rewards)

BestArm(b) == Index(b.total_rewards, Max(b.total_rewards))

\* A pull that forgets to advance the round counter.
PullNoAdvance(b) ==
    IF InExploration(b)
    THEN [bandit |-> b, arm |-> b.current_round % b.n_arms]
    ELSE IF b.best_arm # None
    THEN [bandit |-> b, arm |-> Val(b.best_arm)]
    ELSE [bandit |-> [b EXCEPT !.best_arm = Some(BestArm(b))], arm |-> BestArm(b)]

\* ExploreThenCommitBandit.pull: the bandit after the call and the arm returned.
Pull(b) ==
    IF InExploration(b)
    THEN [bandit |-> NextRound(b), arm |-> b.current_round % b.n_arms]
    ELSE IF b.best_arm # None
    THEN [bandit |-> NextRound(b), arm |-> Val(b.best_arm)]
    ELSE [bandit |-> NextRound([b EXCEPT !.best_arm = Some(BestArm(b))]),
          arm |-> BestArm(b)]

\* Rewards that are dropped from the last exploration pull on.
StoresRewardsStrict(b) == b.current_round < b.n_arms * b.n_epochs

\* Rewards that are stored in every phase.
StoresRewardsAlways(b) == b.current_round >= 0

StoresRewards(b) == b.current_round <= b.n_arms * b.n_epochs

\* A reward that is always stored and makes the next pull choose again.
BanditRewardRefresh(b, arm, reward) ==
    LET o == AccumulatorReward(b, arm, reward)
    IN [o EXCEPT !.bandit.best_arm = None]

\* ExploreThenCommitBandit.reward
BanditReward(b, arm, reward) ==
    IF StoresRewards(b)
    THEN AccumulatorReward(b, arm, reward)
    ELSE [bandit |-> b, raised |-> "none"]

(***************************************************************************)
(* The bandit alone, under any interleaving of pull and reward calls.      *)
(***************************************************************************)
NoEnv == [kind |-> "none"]
NoExperiment == [kind |-> "none"]

\* The arguments the constructor is given: n_epochs, gap and horizon are
\* each optional.
GapHorizon ==
    {<<None, None>>, <<Some(1), None>>,
     <<Some(1), Some(10)>>, <<Some(1), Some(3)>>, <<Some(2), Some(10)>>}

CtorArgs ==
    {[n_arms |-> n, n_epochs |-> e, gap |-> gh[1], horizon |-> gh[2]] :
        n \in 1 .. MaxArms,
        e \in {None} \cup {Some(k) : k \in 1 .. MaxEpochs},
        gh \in GapHorizon}

Construct(c) == ETCInit(c.n_arms, c.n_epochs, c.gap, c.horizon)

\* The number of exploration pulls.
Horizon(b) == b.n_arms * b.n_epochs

InitETC ==
    /\ ctor \in CtorArgs
    /\ bandit = Construct(ctor)
    /\ env = NoEnv
    /\ experiment = NoExperiment
    /\ last = [op |-> "init", arm |-> 0, reward |-> 0, pulled |-> None, ret |-> None,
               raised |-> "none"]
    /\ pulls = 0
    /\ commit_totals = None
    /\ decided = None

ETCPull ==
    /\ pulls < Horizon(bandit) + MaxExtra
    /\ LET o == Pull(bandit)
       IN /\ bandit' = o.bandit
          /\ last' = [op |-> "pull", arm |-> 0, reward |-> 0, pulled |-> Some(o.arm),
                      ret |-> Some(o.arm), raised |-> "none"]
    /\ pulls' = pulls + 1
    /\ commit_totals' = IF pulls = Horizon(bandit)
                        THEN Some(bandit.total_rewards)
                        ELSE commit_totals
    /\ UNCHANGED <<ctor, env, experiment, decided>>

ETCReward ==
    /\ Sum(bandit.arm_counts, bandit.n_arms) < MaxRewards
    /\ \E arm \in -1 .. bandit.n_arms, reward \in Values :
          LET o == BanditReward(bandit, arm, reward)
          IN /\ bandit' = o.bandit
             /\ last' = [op |-> "reward", arm |-> arm, reward |-> reward,
                         pulled |-> last.pulled, ret |-> None, raised |-> o.raised]
    /\ UNCHANGED <<ctor, env, experiment, pulls, commit_totals, decided>>

NextETC == ETCPull \/ ETCReward

SpecETC == InitETC /\ [][NextETC]_vars

(***************************************************************************)
(* Properties of ExploreThenCommitBandit                                   *)
(***************************************************************************)
NoEpochParameters == ctor.n_epochs = None /\ (ctor.gap = None \/ ctor.horizon = None)

\* C2: with n_arms >= 1 and n_epochs >= 1, the k-th pull (k from 0, k <
\* n_arms * n_epochs) returns k mod n_arms whatever rewards were delivered
\* in between; with no epoch parameters the first n_arms pulls return
\* 0, 1, ..., n_arms - 1.
C2_RoundRobin ==
    (last.op = "pull" /\ ctor.n_arms >= 1 /\ bandit.n_epochs >= 1) =>
        /\ (pulls - 1 < ctor.n_arms * bandit.n_epochs =>
                last.ret = Some((pulls - 1) % ctor.n_arms))
        /\ (NoEpochParameters /\ pulls <= ctor.n_arms => last.ret = Some(pulls - 1))

\* The last exploration pull of a bandit with several epochs, reached with
\* rewards delivered on the way.
C2_Witness ==
    /\ last.op = "pull"
    /\ ctor.n_arms = 2
    /\ bandit.n_epochs = 2
    /\ pulls = 4
    /\ Sum(bandit.arm_counts, bandit.n_arms) = 2
    /\ last.ret = Some(1)

\* C3: the committed arm is unset after each of the first n_arms * n_epochs
\* pulls and set from pull n_arms * n_epochs + 1 on; with neither n_epochs
\* nor a (gap, horizon) pair, n_epochs is 1.
C3_CommitsAfterExploration ==
    /\ (pulls <= ctor.n_arms * bandit.n_epochs => bandit.best_arm = None)
    /\ (pulls >= ctor.n_arms * bandit.n_epochs + 1 => bandit.best_arm # None)
    /\ (NoEpochParameters => bandit.n_epochs = 1)

\* The pull that commits, for a bandit built with no epoch parameters.
C3_Witness ==
    /\ NoEpochParameters
    /\ ctor.n_arms = 2
    /\ pulls = 3
    /\ last.op = "pull"
    /\ bandit.best_arm # None

\* The lowest arm of maximal total reward.
LowestMaximiser(t) ==
    CHOOSE a \in DOMAIN t :
        /\ \A c \in DOMAIN t : t[c] <= t[a]
        /\ \A c \in DOMAIN t : c < a => t[c] < t[a]

\* C4: the committed arm is the lowest index maximising total_rewards as
\* they were when the first pull of the commit phase was made; it is arm 0
\* when no reward was delivered.
C4_CommitsToBest ==
    bandit.best_arm # None =>
        /\ commit_totals # None
        /\ bandit.best_arm = Some(LowestMaximiser(Val(commit_totals)))
        /\ (last.op = "pull" => last.ret = bandit.best_arm)
        /\ ((\A a \in Arms(ctor.n_arms) : Val(commit_totals)[a] = 0) =>
                bandit.best_arm = Some(0))

\* A commitment decided by the first-index tie-break.
C4_Witness ==
    /\ bandit.best_arm = Some(0)
    /\ ctor.n_arms = 2
    /\ commit_totals # None
    /\ Val(commit_totals)[0] = 1
    /\ Val(commit_totals)[1] = 1

\* C5: once an arm is committed, it stays the committed arm and every
\* later pull returns it, whatever pull and reward calls follow.
C5_Irreversible ==
    [][bandit.best_arm # None =>
          /\ bandit'.best_arm = bandit.best_arm
          /\ (pulls' # pulls => last'.ret = bandit.best_arm)]_vars

\* A reward delivered after several pulls of the committed arm.
C5_Witness ==
    /\ bandit.best_arm # None
    /\ pulls >= ctor.n_arms * bandit.n_epochs + 3
    /\ last.op = "reward"

\* C6: a reward call made after commitment raises nothing and leaves
\* arm_counts, total_rewards and the committed arm as they were.
C6_RewardAfterCommitIsNoOp ==
    [][(bandit.best_arm # None /\ last'.op = "reward") =>
          /\ last'.raised = "none"
          /\ bandit'.arm_counts = bandit.arm_counts
          /\ bandit'.total_rewards = bandit.total_rewards
          /\ bandit'.best_arm = bandit.best_arm]_vars

\* A reward call made on a committed bandit whose accumulator holds rewards.
C6_Witness ==
    /\ bandit.best_arm # None
    /\ last.op = "reward"
    /\ Sum(bandit.arm_counts, bandit.n_arms) > 0

(***************************************************************************)
(* Environments                                                            *)
(***************************************************************************)
\* An arm argument is one index or a sequence of indices
\* (isinstance(arm, collections.abc.Sequence)).
One(a) == [is_sequence |-> FALSE, at |-> <<a>>]
Several(s) == [is_sequence |-> TRUE, at |-> s]
IsSequence(arm) == arm.is_sequence

\* sum(v[a] for a in arm)
RECURSIVE SumOver(_, _)
SumOver(v, s) == IF s = <<>> THEN 0 ELSE v[Head(s)] + SumOver(v, Tail(s))

\* A random variable: its mean() and the values rvs() may draw.
Degenerate(m) == [mean |-> m, values |-> {m}]
Spread(m) == [mean |-> m, values |-> {m - 1, m + 1}]
Distributions == {Degenerate(m) : m \in Values} \cup {Spread(1)}

\* StochasticMultiArmedEnvironment.__init__
StochasticInit(distributions) ==
    LET means == [a \in DOMAIN distributions |-> distributions[a].mean]
    IN [kind |-> "stochastic",
        distributions |-> distributions,
        means |-> means,
        best_reward |-> Max(means),
        best_arm |-> Index(means, Max(means))]

\* StochasticMultiArmedEnvironment.reward: one outcome per value drawn; the
\* list of distributions is indexed with the arm as Python indexes a list.
StochasticReward(e, arm) ==
    LET n == Cardinality(DOMAIN e.distributions)
    IN IF IsSequence(arm)
       THEN {[env |-> e, ret |-> None, raised |-> "TypeError", calls |-> <<>>,
              decided |-> None]}
       ELSE IF ~ValidIndex(n, Val(arm.at))
       THEN {[env |-> e, ret |-> None, raised |-> "IndexError", calls |-> <<>>,
              decided |-> None]}
       ELSE {[env |-> e, ret |-> Some(x), raised |-> "none", calls |-> <<>>,
              decided |-> None] :
                x \in e.distributions[Position(n, Val(arm.at))].values}

\* StochasticEnvironment.true_reward
StochasticTrueReward(e, arm) ==
    LET n == Cardinality(DOMAIN e.means)
    IN IF IsSequence(arm)
       THEN IF \E i \in DOMAIN arm.at : ~ValidIndex(n, arm.at[i])
            THEN [ret |-> None, raised |-> "IndexError"]
            ELSE [ret |-> Some(SumOver(e.means, [i \in DOMAIN arm.at |->
                                                   Position(n, arm.at[i])])),
                  raised |-> "none"]
       ELSE IF ~ValidIndex(n, Val(arm.at))
       THEN [ret |-> None, raised |-> "IndexError"]
       ELSE [ret |-> Some(e.means[Position(n, Val(arm.at))]), raised |-> "none"]

\* A regret with its operands exchanged.
StochasticRegretReversed(e, reward) ==
    [ret |-> Some(reward - e.best_reward), raised |-> "none"]

StochasticRegret(e, reward) ==
    [ret |-> Some(e.best_reward - reward), raised |-> "none"]

\* The adversaries: one that always offers the same vector (the tests'
\* DeterministicAdversary) and one that adapts, offering nothing for the
\* arms of the interaction it was last told of.
AdversaryInit(n_arms, strategy, rewards) ==
    [n_arms |-> n_arms, strategy |-> strategy, rewards |-> rewards, played |-> None]

Adversaries ==
    UNION {{AdversaryInit(n, s, r) :
               s \in {"deterministic", "adaptive"}, r \in [Arms(n) -> Values]} :
             n \in 1 .. MaxArms}

\* Adversary.decide_rewards: the vectors the adversary may return.
DecideRewards(adv) ==
    IF adv.strategy = "adaptive" /\ adv.played # None
    THEN {[a \in Arms(adv.n_arms) |->
             IF \E i \in DOMAIN Val(adv.played).at :
                    Position(adv.n_arms, Val(adv.played).at[i]) = a
             THEN 0 ELSE adv.rewards[a]]}
    ELSE {adv.rewards}

\* Adversary.register_interaction
RegisterInteraction(adv, arm) == [adv EXCEPT !.played = Some(arm)]

\* AdversarialEnvironment.__init__
AdversarialInit(kind, adv) ==
    [kind |-> kind, last_rewards |-> None, adversary |-> adv]

\* AdversarialEnvironment.regret
AdversarialRegret(e, reward) ==
    IF e.last_rewards = None
    THEN [ret |-> None, raised |-> "AssertionError"]
    ELSE [ret |-> Some(Max(Val(e.last_rewards)) - reward), raised |-> "none"]

\* An environment that keeps the first vector it was offered.
CacheOnce(e, v) == [e EXCEPT !.last_rewards = IF @ = None THEN Some(v) ELSE @]

\* An environment that does not keep the vector it was offered.
CacheNothing(e, v) == e

\* self._last_rewards = self._adversary.decide_rewards()
Cache(e, v) == [e EXCEPT !.last_rewards = Some(v)]

\* The scalar reward of an arm argument under the vector v.
ArmReward(v, arm) ==
    IF IsSequence(arm) THEN SumOver(v, arm.at)
    ELSE v[Position(Cardinality(DOMAIN v), Val(arm.at))]

\* Whether indexing the vector with the arm argument raises IndexError.
ArmRaises(v, arm) ==
    ~IsSequence(arm) /\ ~ValidIndex(Cardinality(DOMAIN v), Val(arm.at))

\* An environment that tells the adversary the arm before it decides.
AdversarialRewardTellsFirst(e, arm) ==
    {IF ArmRaises(v, arm)
     THEN [env |-> [Cache(e, v) EXCEPT !.adversary = RegisterInteraction(@, arm)],
           ret |-> None,
           raised |-> "IndexError",
           calls |-> <<"register_interaction", "decide_rewards">>,
           decided |-> Some(v)]
     ELSE [env |-> [Cache(e, v) EXCEPT !.adversary = RegisterInteraction(@, arm)],
           ret |-> Some(ArmReward(v, arm)),
           raised |-> "none",
           calls |-> <<"register_interaction", "decide_rewards">>,
           decided |-> Some(v)] :
        v \in DecideRewards(RegisterInteraction(e.adversary, arm))}

\* AdversarialMultiArmedEnvironment.reward: one outcome per vector the
\* adversary may decide.
AdversarialReward(e, arm) ==
    {IF ArmRaises(v, arm)
     THEN [env |-> Cache(e, v),
           ret |-> None,
           raised |-> "IndexError",
           calls |-> <<"decide_rewards">>,
           decided |-> Some(v)]
     ELSE [env |-> [Cache(e, v) EXCEPT !.adversary = RegisterInteraction(@, arm)],
           ret |-> Some(ArmReward(v, arm)),
           raised |-> "none",
           calls |-> <<"decide_rewards", "register_interaction">>,
           decided |-> Some(v)] :
        v \in DecideRewards(e.adversary)}

\* FullInformationAdversarialMultiArmedEnvironment.rewards: the value
\* returned is the vector.
FullInformationRewards(e, arm) ==
    {[env |-> [Cache(e, v) EXCEPT !.adversary = RegisterInteraction(@, arm)],
      ret |-> Some(v),
      raised |-> "none",
      calls |-> <<"decide_rewards", "register_interaction">>,
      decided |-> Some(v)] :
        v \in DecideRewards(e.adversary)}

\* An environment of a finite resource, as Environment asks of subclasses:
\* it overrides may_stop_accepting_inputs and will_accept_input, and each
\* reward or rewards call spends one unit of the resource.
Limited(e, k) == e @@ [remaining |-> k]
IsLimited(e) == "remaining" \in DOMAIN e
Consume(e) == IF IsLimited(e) THEN [e EXCEPT !.remaining = @ - 1] ELSE e

\* environment.n_arms
EnvArms(e) ==
    IF e.kind = "stochastic" THEN Cardinality(DOMAIN e.distributions)
    ELSE e.adversary.n_arms

\* environment.reward(arm)
EnvReward(e, arm) ==
    {[o EXCEPT !.env = Consume(@)] :
        o \in IF e.kind = "stochastic" THEN StochasticReward(e, arm)
              ELSE IF e.kind = "adversarial" THEN AdversarialReward(e, arm)
              ELSE {[env |-> e, ret |-> None, raised |-> "NotImplementedError",
                     calls |-> <<>>, decided |-> None]}}

\* environment.rewards(arm)
EnvRewards(e, arm) ==
    {[o EXCEPT !.env = Consume(@)] :
        o \in IF e.kind = "full_information" THEN FullInformationRewards(e, arm)
              ELSE {[env |-> e, ret |-> None, raised |-> "NotImplementedError",
                     calls |-> <<>>, decided |-> None]}}

\* environment.regret(reward)
EnvRegret(e, reward) ==
    IF e.kind = "stochastic" THEN StochasticRegret(e, reward)
    ELSE AdversarialRegret(e, reward)

\* Environment.may_stop_accepting_inputs and will_accept_input: False and
\* True unless the environment is one of a finite resource.
MayStopAcceptingInputs(e) == IsLimited(e)
WillAcceptInput(e) == ~IsLimited(e) \/ e.remaining > 0

(***************************************************************************)
(* Experiments                                                             *)
(***************************************************************************)
\* A constructor that does not compare the numbers of arms.
ExperimentInitUnchecked(kind, e, b) ==
    IF kind = "MultiArmedStochasticExperiment"
    THEN [kind |-> kind, best_arm |-> Some(Index(e.means, Max(e.means))), raised |-> "none"]
    ELSE [kind |-> kind, best_arm |-> None, raised |-> "none"]

\* A constructor that keeps the last arm of maximal mean.
ExperimentInitLastBest(kind, e, b) ==
    IF EnvArms(e) # b.n_arms
    THEN [kind |-> kind, best_arm |-> None, raised |-> "AssertionError"]
    ELSE IF kind = "MultiArmedStochasticExperiment"
    THEN [kind |-> kind,
          best_arm |-> Some(CHOOSE a \in DOMAIN e.means :
                                /\ e.means[a] = Max(e.means)
                                /\ \A c \in DOMAIN e.means : c > a => e.means[c] # Max(e.means)),
          raised |-> "none"]
    ELSE [kind |-> kind, best_arm |-> None, raised |-> "none"]

\* MultiArmedStochasticExperiment.__init__ and
\* MultiArmedAdversarialExperiment.__init__
ExperimentInit(kind, e, b) ==
    IF EnvArms(e) # b.n_arms
    THEN [kind |-> kind, best_arm |-> None, raised |-> "AssertionError"]
    ELSE IF kind = "MultiArmedStochasticExperiment"
    THEN [kind |-> kind, best_arm |-> Some(Index(e.means, Max(e.means))), raised |-> "none"]
    ELSE [kind |-> kind, best_arm |-> None, raised |-> "none"]

\* Experiment.regret
ExperimentRegret(e, reward) == EnvRegret(e, reward)

Call(fn, arm, reward, ret) == [fn |-> fn, arm |-> arm, reward |-> reward, ret |-> ret]

\* A round that hands the bandit the regret instead of the reward.
RoundForwardsRegret(b, e) ==
    LET p == Pull(b)
    IN {LET g == ExperimentRegret(r.env, Val(r.ret))
            w == BanditReward(p.bandit, p.arm, Val(g.ret))
        IN [bandit |-> w.bandit, env |-> r.env, ret |-> g.ret, raised |-> g.raised,
            calls |-> <<Call("bandit.pull", None, None, Some(p.arm)),
                        Call("environment.reward", Some(p.arm), None, r.ret),
                        Call("bandit.reward", Some(p.arm), g.ret, None),
                        Call("environment.regret", None, r.ret, g.ret)>>] :
          r \in EnvReward(e, One(p.arm))}

\* The outcome of a round refused by an environment that no longer accepts
\* inputs.
Refused(b, e) ==
    [bandit |-> b, env |-> e, ret |-> None,
     raised |-> "EnvironmentNoMoreAcceptingInputsException", calls |-> <<>>]

\* Experiment.__init__, which FullInformationExperiment,
\* SemiBanditFeedbackExperiment and BanditFeedbackExperiment inherit.
BaseExperimentInit(kind, e, b) == [kind |-> kind, best_arm |-> None, raised |-> "none"]

\* Bandit.rewards, which no bandit of the package overrides.
BanditRewards(b, rewards) == [bandit |-> b, raised |-> "NotImplementedError"]

\* FullInformationExperiment.round: the value of environment.rewards is
\* unpacked into two names, which raises ValueError unless it holds exactly
\* two items.
FullInformationRound(b, e) ==
    IF MayStopAcceptingInputs(e) /\ ~WillAcceptInput(e)
    THEN {Refused(b, e)}
    ELSE LET p == Pull(b)
             pulled == <<Call("bandit.pull", None, None, Some(p.arm))>>
         IN {IF r.raised # "none"
             THEN [bandit |-> p.bandit, env |-> r.env, ret |-> None, raised |-> r.raised,
                   calls |-> pulled]
             ELSE LET v == Val(r.ret)
                      resolved == Append(pulled,
                                         Call("environment.rewards", Some(p.arm), None, r.ret))
                  IN IF Cardinality(DOMAIN v) # 2
                     THEN [bandit |-> p.bandit, env |-> r.env, ret |-> None,
                           raised |-> "ValueError", calls |-> resolved]
                     ELSE LET w == BanditRewards(p.bandit, v[0])
                          IN IF w.raised # "none"
                             THEN [bandit |-> w.bandit, env |-> r.env, ret |-> None,
                                   raised |-> w.raised, calls |-> resolved]
                             ELSE LET g == ExperimentRegret(r.env, v[1])
                                  IN [bandit |-> w.bandit, env |-> r.env, ret |-> g.ret,
                                      raised |-> g.raised,
                                      calls |-> resolved \o
                                          <<Call("bandit.rewards", None, Some(v[0]), None),
                                            Call("environment.regret", None, Some(v[1]),
                                                 g.ret)>>] :
               r \in EnvRewards(e, One(p.arm))}

\* SemiBanditFeedbackExperiment.round, which has the statements of
\* FullInformationExperiment.round.
SemiBanditFeedbackRound(b, e) == FullInformationRound(b, e)

\* A round that does not ask the environment whether it accepts inputs.
RoundUnguarded(b, e) ==
    LET p == Pull(b)
    IN {IF r.raised # "none"
        THEN [bandit |-> p.bandit, env |-> r.env, ret |-> None, raised |-> r.raised,
              calls |-> <<Call("bandit.pull", None, None, Some(p.arm))>>]
        ELSE LET w == BanditReward(p.bandit, p.arm, Val(r.ret))
                 g == ExperimentRegret(r.env, Val(r.ret))
             IN [bandit |-> w.bandit, env |-> r.env, ret |-> g.ret, raised |-> g.raised,
                 calls |-> <<Call("bandit.pull", None, None, Some(p.arm)),
                             Call("environment.reward", Some(p.arm), None, r.ret),
                             Call("bandit.reward", Some(p.arm), r.ret, None),
                             Call("environment.regret", None, r.ret, g.ret)>>] :
          r \in EnvReward(e, One(p.arm))}

\* A round that does not forward the reward to the bandit.
RoundSkipsReward(b, e) ==
    IF MayStopAcceptingInputs(e) /\ ~WillAcceptInput(e)
    THEN {Refused(b, e)}
    ELSE LET p == Pull(b)
         IN {IF r.raised # "none"
             THEN [bandit |-> p.bandit, env |-> r.env, ret |-> None, raised |-> r.raised,
                   calls |-> <<Call("bandit.pull", None, None, Some(p.arm))>>]
             ELSE LET g == ExperimentRegret(r.env, Val(r.ret))
                  IN [bandit |-> p.bandit, env |-> r.env, ret |-> g.ret, raised |-> g.raised,
                      calls |-> <<Call("bandit.pull", None, None, Some(p.arm)),
                                  Call("environment.reward", Some(p.arm), None, r.ret),
                                  Call("bandit.reward", Some(p.arm), r.ret, None),
                                  Call("environment.regret", None, r.ret, g.ret)>>] :
               r \in EnvReward(e, One(p.arm))}

\* BanditFeedbackExperiment.round: one outcome per reward the environment
\* may give; an exception ends the round where it is raised.
Round(b, e) ==
    IF MayStopAcceptingInputs(e) /\ ~WillAcceptInput(e)
    THEN {Refused(b, e)}
    ELSE LET p == Pull(b)
             pulled == <<Call("bandit.pull", None, None, Some(p.arm))>>
         IN {IF r.raised # "none"
             THEN [bandit |-> p.bandit, env |-> r.env, ret |-> None, raised |-> r.raised,
                   calls |-> pulled]
             ELSE LET w == BanditReward(p.bandit, p.arm, Val(r.ret))
                      resolved == Append(pulled,
                                         Call("environment.reward", Some(p.arm), None, r.ret))
                  IN IF w.raised # "none"
                     THEN [bandit |-> w.bandit, env |-> r.env, ret |-> None,
                           raised |-> w.raised, calls |-> resolved]
                     ELSE LET g == ExperimentRegret(r.env, Val(r.ret))
                          IN [bandit |-> w.bandit, env |-> r.env, ret |-> g.ret,
                              raised |-> g.raised,
                              calls |-> resolved \o
                                  <<Call("bandit.reward", Some(p.arm), r.ret, None),
                                    Call("environment.regret", None, r.ret, g.ret)>>] :
               r \in EnvReward(e, One(p.arm))}

\* self.round() of an experiment of kind x.kind
RoundOf(x, b, e) ==
    IF x.kind = "FullInformationExperiment" THEN FullInformationRound(b, e)
    ELSE IF x.kind = "SemiBanditFeedbackExperiment" THEN SemiBanditFeedbackRound(b, e)
    ELSE Round(b, e)

\* A loop that calls round() without asking the environment first.
RoundsStepNoCheck(x, S, may_stop) ==
    UNION {IF y.raised # "none"
           THEN {y}
           ELSE {[bandit |-> o.bandit, env |-> o.env, raised |-> o.raised,
                  ret |-> IF o.raised = "none" THEN Some(Val(y.ret) + Val(o.ret)) ELSE None] :
                    o \in RoundOf(x, y.bandit, y.env)} :
             y \in S}

\* One more round() added to every run that has not raised; with an
\* environment that may stop, a run whose environment refuses input is over.
RoundsStep(x, S, may_stop) ==
    UNION {IF y.raised # "none" \/ (may_stop /\ ~WillAcceptInput(y.env))
           THEN {y}
           ELSE {[bandit |-> o.bandit, env |-> o.env, raised |-> o.raised,
                  ret |-> IF o.raised = "none" THEN Some(Val(y.ret) + Val(o.ret)) ELSE None] :
                    o \in RoundOf(x, y.bandit, y.env)} :
             y \in S}

RECURSIVE RoundsLoop(_, _, _, _)
RoundsLoop(x, S, may_stop, n) ==
    IF n <= 0 THEN S ELSE RoundsLoop(x, RoundsStep(x, S, may_stop), may_stop, n - 1)

\* Experiment.rounds: the runs of n rounds, each with the sum of its regrets.
Rounds(x, b, e, n) ==
    RoundsLoop(x, {[bandit |-> b, env |-> e, raised |-> "none", ret |-> Some(0)]},
               MayStopAcceptingInputs(e), n)

(***************************************************************************)
(* An experiment driving an ExploreThenCommitBandit against a stochastic   *)
(* or an adversarial multi-armed environment.                              *)
(***************************************************************************)
MaxRounds == 10

\* The stochastic environments: every arm gives its mean, or arm 0 alone
\* draws around its mean.
StochasticEnvironments ==
    {StochasticInit(d) :
        d \in {f \in UNION {[Arms(n) -> Distributions] : n \in 1 .. MaxArms} :
                  \A a \in DOMAIN f : a > 0 => f[a] \in {Degenerate(m) : m \in Values}}}

AdversarialEnvironments ==
    {AdversarialInit("adversarial", adv) : adv \in Adversaries}

CtorArgsExp == {c \in CtorArgs : c.gap = None /\ c.horizon = None}

InitExp ==
    /\ ctor \in CtorArgsExp
    /\ bandit = Construct(ctor)
    /\ env \in StochasticEnvironments \cup AdversarialEnvironments
    /\ experiment = ExperimentInit(IF env.kind = "stochastic"
                                   THEN "MultiArmedStochasticExperiment"
                                   ELSE "MultiArmedAdversarialExperiment", env, bandit)
    /\ last = [op |-> "init", n |-> 0, before |-> 0, reward |-> None, ret |-> None,
               raised |-> experiment.raised, calls |-> <<>>]
    /\ pulls = 0
    /\ commit_totals = None
    /\ decided = None

ExpRound ==
    /\ experiment.raised = "none"
    /\ pulls < MaxRounds
    /\ \E o \in Round(bandit, env) :
          /\ bandit' = o.bandit
          /\ env' = o.env
          /\ last' = [op |-> "round", n |-> 1, before |-> pulls, reward |-> None,
                      ret |-> o.ret, raised |-> o.raised, calls |-> o.calls]
    /\ pulls' = pulls + 1
    /\ UNCHANGED <<ctor, experiment, commit_totals, decided>>

ExpRounds ==
    /\ experiment.raised = "none"
    /\ \E n \in 0 .. MaxRounds - pulls : \E o \in Rounds(experiment, bandit, env, n) :
          /\ bandit' = o.bandit
          /\ env' = o.env
          /\ last' = [op |-> "rounds", n |-> n, before |-> pulls, reward |-> None,
                      ret |-> o.ret, raised |-> o.raised, calls |-> <<>>]
          /\ pulls' = pulls + n
    /\ UNCHANGED <<ctor, experiment, commit_totals, decided>>

ExpRegret ==
    /\ experiment.raised = "none"
    /\ \E reward \in Values :
          LET o == ExperimentRegret(env, reward)
          IN last' = [op |-> "regret", n |-> 0, before |-> pulls, reward |-> Some(reward),
                      ret |-> o.ret, raised |-> o.raised, calls |-> <<>>]
    /\ UNCHANGED <<bandit, ctor, env, experiment, pulls, commit_totals, decided>>

NextExp == ExpRound \/ ExpRounds \/ ExpRegret

SpecExp == InitExp /\ [][NextExp]_vars

(***************************************************************************)
(* Properties of the experiments                                           *)
(***************************************************************************)
\* C1: a successful round() makes one bandit.pull(), then one
\* environment.reward(arm) with the arm pulled, then one bandit.reward(arm,
\* reward) with that arm and the reward obtained, then returns
\* environment.regret(reward) for that reward; a round is one step.
C1_RoundSequence ==
    (last.op = "round" /\ last.raised = "none") =>
        /\ Len(last.calls) = 4
        /\ last.calls[1].fn = "bandit.pull"
        /\ last.calls[2].fn = "environment.reward"
        /\ last.calls[2].arm = last.calls[1].ret
        /\ last.calls[3].fn = "bandit.reward"
        /\ last.calls[3].arm = last.calls[1].ret
        /\ last.calls[3].reward = last.calls[2].ret
        /\ last.calls[4].fn = "environment.regret"
        /\ last.calls[4].reward = last.calls[2].ret
        /\ last.ret = last.calls[4].ret
        /\ last.ret = EnvRegret(env, Val(last.calls[2].ret)).ret

\* A round that pulled arm 1, obtained 0 for it and returned a regret of 1.
C1_Witness ==
    /\ last.op = "round"
    /\ last.raised = "none"
    /\ Len(last.calls) = 4
    /\ last.calls[1].ret = Some(1)
    /\ last.calls[2].ret = Some(0)
    /\ last.ret = Some(1)

\* C12: constructing a MultiArmedStochasticExperiment or a
\* MultiArmedAdversarialExperiment fails with AssertionError when
\* environment.n_arms differs from bandit.n_arms and succeeds when they are
\* equal.
C12_ArmsMustAgree ==
    /\ experiment.kind \in {"MultiArmedStochasticExperiment", "MultiArmedAdversarialExperiment"}
    /\ (EnvArms(env) # bandit.n_arms => experiment.raised = "AssertionError" /\ last.op = "init")
    /\ (EnvArms(env) = bandit.n_arms => experiment.raised = "none")

\* A two-armed adversarial environment given a one-armed bandit.
C12_Witness ==
    /\ experiment.kind = "MultiArmedAdversarialExperiment"
    /\ EnvArms(env) = 2
    /\ bandit.n_arms = 1
    /\ experiment.raised = "AssertionError"

\* C13: best_arm is fixed at construction: the lowest index attaining the
\* maximum true mean for a MultiArmedStochasticExperiment, None for a
\* MultiArmedAdversarialExperiment, whatever round, rounds and regret calls
\* were made since.
C13_BestArmFixed ==
    experiment.raised = "none" =>
        /\ (experiment.kind = "MultiArmedStochasticExperiment" =>
               experiment.best_arm = Some(LowestMaximiser(env.means)))
        /\ (experiment.kind = "MultiArmedAdversarialExperiment" =>
               experiment.best_arm = None)

\* Two arms of equal mean, after several rounds and a regret call.
C13_Witness ==
    /\ experiment.kind = "MultiArmedStochasticExperiment"
    /\ experiment.raised = "none"
    /\ EnvArms(env) = 2
    /\ env.means[0] = 1
    /\ env.means[1] = 1
    /\ experiment.best_arm = Some(0)
    /\ pulls >= 3
    /\ last.op = "regret"

\* An environment whose arms give deterministic rewards, and these rewards.
DeterministicEnvironment ==
    \/ /\ env.kind = "stochastic"
       /\ \A a \in DOMAIN env.distributions :
             env.distributions[a].values = {env.distributions[a].mean}
    \/ /\ env.kind = "adversarial"
       /\ env.adversary.strategy = "deterministic"

ArmRewards == IF env.kind = "stochastic" THEN env.means ELSE env.adversary.rewards

Gap(a) == Max(ArmRewards) - ArmRewards[a]

\* C7: with deterministic rewards r[a] and a fresh bandit of E epochs,
\* rounds(n) with n >= n_arms * E returns E times the sum over the arms of
\* max r - r[a]: a round of the exploration phase costs max r - r[a] for the
\* arm a it plays and a round after commitment costs nothing.
C7_ExplorationRegret ==
    (DeterministicEnvironment /\ experiment.raised = "none") =>
        /\ (last.op = "rounds" /\ last.before = 0 /\ last.n >= ctor.n_arms * bandit.n_epochs =>
               last.ret = Some(bandit.n_epochs * Sum([a \in Arms(ctor.n_arms) |-> Gap(a)],
                                                     ctor.n_arms)))
        /\ (last.op = "round" =>
               last.ret = Some(IF pulls <= ctor.n_arms * bandit.n_epochs
                               THEN Gap((pulls - 1) % ctor.n_arms)
                               ELSE 0))

\* rounds(10) on a fresh experiment of two arms with rewards 0 and 1 and
\* one epoch returns 1.
C7_Witness ==
    /\ last.op = "rounds"
    /\ last.before = 0
    /\ last.n = 10
    /\ env.kind = "stochastic"
    /\ DeterministicEnvironment
    /\ ctor.n_arms = 2
    /\ ctor.n_epochs = None
    /\ ArmRewards[0] = 0
    /\ ArmRewards[1] = 1
    /\ last.ret = Some(1)

\* The number of exploration pulls of arm a among the first t pulls.
ExplorationPulls(a, t) ==
    Cardinality({k \in 0 .. t - 1 :
                    k < ctor.n_arms * bandit.n_epochs /\ k % ctor.n_arms = a})

\* The accumulator of the bandit after pulls rounds.
AccumulatorFollowsRounds ==
    experiment.raised = "none" =>
        /\ Sum(bandit.arm_counts, ctor.n_arms) =
               IF pulls < ctor.n_arms * bandit.n_epochs
               THEN pulls ELSE ctor.n_arms * bandit.n_epochs
        /\ \A a \in Arms(ctor.n_arms) : bandit.arm_counts[a] = ExplorationPulls(a, pulls)
        /\ (bandit.best_arm # None =>
               \A a \in Arms(ctor.n_arms) : bandit.arm_counts[a] = bandit.n_epochs)

\* C17: with each pull followed by one reward for the arm pulled, as
\* Experiment.round does, after t rounds sum(arm_counts) is
\* min(t, n_arms * n_epochs) and arm_counts[a] is the number of exploration
\* pulls of arm a; from commitment on arm_counts[a] = n_epochs for every arm
\* and the accumulator no longer changes.
C17_AccumulatorUnderRounds ==
    /\ []AccumulatorFollowsRounds
    /\ [][bandit.best_arm # None =>
              /\ bandit'.arm_counts = bandit.arm_counts
              /\ bandit'.total_rewards = bandit.total_rewards]_vars

\* Two rounds after the commitment of a bandit of two arms and two epochs.
C17_Witness ==
    /\ experiment.raised = "none"
    /\ last.op = "round"
    /\ ctor.n_arms = 2
    /\ bandit.n_epochs = 2
    /\ pulls = 6
    /\ bandit.best_arm # None
    /\ bandit.arm_counts[0] = 2
    /\ bandit.arm_counts[1] = 2
    /\ bandit.total_rewards[1] > 0

(***************************************************************************)
(* An adversarial environment alone, under any sequence of reward,         *)
(* rewards and regret calls.                                               *)
(***************************************************************************)
MaxCombination == 2

NoBandit == [kind |-> "none"]
NoCtor == [kind |-> "none"]

\* The arm arguments: any index from -1 to n_arms, and the sequences of at
\* most MaxCombination arms.
ArmArguments(n) ==
    {One(a) : a \in -1 .. n}
        \cup {Several(s) : s \in UNION {[1 .. k -> Arms(n)] : k \in 0 .. MaxCombination}}

InitAdv ==
    /\ \E adv \in Adversaries, kind \in {"adversarial", "full_information"} :
          env = AdversarialInit(kind, adv)
    /\ bandit = NoBandit
    /\ ctor = NoCtor
    /\ experiment = NoExperiment
    /\ last = [op |-> "init", arm |-> None, reward |-> None, ret |-> None,
               raised |-> "none", calls |-> <<>>]
    /\ pulls = 0
    /\ commit_totals = None
    /\ decided = None

AdvReward ==
    /\ env.kind = "adversarial"
    /\ \E arm \in ArmArguments(EnvArms(env)) : \E o \in AdversarialReward(env, arm) :
          /\ env' = o.env
          /\ decided' = o.decided
          /\ last' = [op |-> "reward", arm |-> Some(arm), reward |-> None, ret |-> o.ret,
                      raised |-> o.raised, calls |-> o.calls]
    /\ UNCHANGED <<bandit, ctor, experiment, pulls, commit_totals>>

AdvRewards ==
    /\ env.kind = "full_information"
    /\ \E arm \in ArmArguments(EnvArms(env)) : \E o \in FullInformationRewards(env, arm) :
          /\ env' = o.env
          /\ decided' = o.decided
          /\ last' = [op |-> "rewards", arm |-> Some(arm), reward |-> None, ret |-> None,
                      raised |-> o.raised, calls |-> o.calls]
    /\ UNCHANGED <<bandit, ctor, experiment, pulls, commit_totals>>

AdvRegret ==
    /\ \E reward \in Values :
          LET o == AdversarialRegret(env, reward)
          IN last' = [op |-> "regret", arm |-> None, reward |-> Some(reward), ret |-> o.ret,
                      raised |-> o.raised, calls |-> <<>>]
    /\ UNCHANGED <<bandit, ctor, env, experiment, pulls, commit_totals, decided>>

AdvExperimentRegret ==
    /\ \E reward \in Values :
          LET o == ExperimentRegret(env, reward)
          IN last' = [op |-> "experiment.regret", arm |-> None, reward |-> Some(reward),
                      ret |-> o.ret, raised |-> o.raised, calls |-> <<>>]
    /\ UNCHANGED <<bandit, ctor, env, experiment, pulls, commit_totals, decided>>

NextAdv == AdvReward \/ AdvRewards \/ AdvRegret \/ AdvExperimentRegret

SpecAdv == InitAdv /\ [][NextAdv]_vars

(***************************************************************************)
(* Properties of the adversarial environments                              *)
(***************************************************************************)
\* C8: regret, called on the environment or through Experiment.regret,
\* fails with the sequencing-violation error exactly when no reward or
\* rewards call has been made on the environment yet.
C8_RegretNeedsReward ==
    last.op \in {"regret", "experiment.regret"} =>
        /\ (last.raised = "AssertionError" <=> decided = None)
        /\ (last.raised = "none" <=> decided # None)

\* A regret that succeeds after a reward call was made.
C8_Witness ==
    /\ last.op = "experiment.regret"
    /\ last.raised = "none"
    /\ decided # None

\* C9: on an AdversarialMultiArmedEnvironment the cached vector is the one
\* v decided during the most recent reward call; that call returned v[arm],
\* or the sum of v[a] over a in arm for a sequence of arms, and every regret(r)
\* until the next reward call returns max(v) - r.
C9_CachedVector ==
    (env.kind = "adversarial" /\ decided # None) =>
        /\ env.last_rewards = decided
        /\ (last.op = "reward" /\ last.raised = "none" /\ IsSequence(Val(last.arm)) =>
               last.ret = Some(SumOver(Val(decided), Val(last.arm).at)))
        /\ (last.op = "reward" /\ last.raised = "none" /\ ~IsSequence(Val(last.arm)) =>
               last.ret = Some(Val(decided)[Position(EnvArms(env), Val(Val(last.arm).at))]))
        /\ (last.op \in {"regret", "experiment.regret"} =>
               last.ret = Some(Max(Val(decided)) - Val(last.reward)))

\* A regret asked after an adaptive adversary offered a vector other than
\* its first one.
C9_Witness ==
    /\ env.kind = "adversarial"
    /\ env.adversary.strategy = "adaptive"
    /\ last.op = "regret"
    /\ decided # None
    /\ decided # Some(env.adversary.rewards)
    /\ last.ret = Some(Max(Val(decided)) - Val(last.reward))

\* C10: in every round of an adversarial environment decide_rewards is
\* invoked once and returns before register_interaction(arm) is invoked once:
\* the vector is one the adversary decides knowing only the arms registered
\* in earlier rounds, and the adversary is told the round's arm afterwards.
C10_DecideThenRegister ==
    [][(last'.op \in {"reward", "rewards"} /\ last'.raised = "none") =>
          /\ last'.calls = <<"decide_rewards", "register_interaction">>
          /\ decided' \in {Some(v) : v \in DecideRewards(env.adversary)}
          /\ env'.adversary = RegisterInteraction(env.adversary, Val(last'.arm))]_vars

\* A round in which the adaptive adversary had been told an arm before and
\* is told another one now.
C10_Witness ==
    /\ last.op = "reward"
    /\ last.raised = "none"
    /\ env.adversary.strategy = "adaptive"
    /\ decided # None
    /\ decided # Some(env.adversary.rewards)
    /\ env.adversary.played = Some(One(0))
    /\ Val(decided)[0] > 0

(***************************************************************************)
(* A stochastic multi-armed environment alone, under any sequence of       *)
(* reward, true_reward and regret calls.                                   *)
(***************************************************************************)
InitSto ==
    /\ env \in StochasticEnvironments
    /\ ctor = [distributions |-> env.distributions]
    /\ bandit = NoBandit
    /\ experiment = NoExperiment
    /\ last = [op |-> "init", arm |-> None, reward |-> None, ret |-> None,
               raised |-> "none"]
    /\ pulls = 0
    /\ commit_totals = None
    /\ decided = None

StoReward ==
    /\ pulls < MaxRounds
    /\ \E arm \in ArmArguments(EnvArms(env)) : \E o \in StochasticReward(env, arm) :
          /\ env' = o.env
          /\ last' = [op |-> "reward", arm |-> Some(arm), reward |-> None, ret |-> o.ret,
                      raised |-> o.raised]
    /\ pulls' = pulls + 1
    /\ UNCHANGED <<bandit, ctor, experiment, commit_totals, decided>>

StoTrueReward ==
    /\ pulls < MaxRounds
    /\ \E arm \in ArmArguments(EnvArms(env)) :
          LET o == StochasticTrueReward(env, arm)
          IN last' = [op |-> "true_reward", arm |-> Some(arm), reward |-> None,
                      ret |-> o.ret, raised |-> o.raised]
    /\ pulls' = pulls + 1
    /\ UNCHANGED <<bandit, ctor, env, experiment, commit_totals, decided>>

StoRegret ==
    /\ pulls < MaxRounds
    /\ \E reward \in Values :
          LET o == StochasticRegret(env, reward)
          IN last' = [op |-> "regret", arm |-> None, reward |-> Some(reward),
                      ret |-> o.ret, raised |-> o.raised]
    /\ pulls' = pulls + 1
    /\ UNCHANGED <<bandit, ctor, env, experiment, commit_totals, decided>>

NextSto == StoReward \/ StoTrueReward \/ StoRegret

SpecSto == InitSto /\ [][NextSto]_vars

(***************************************************************************)
(* Properties of the stochastic environment                                *)
(***************************************************************************)
\* The means of the distributions the environment was constructed from.
ConstructionMeans == [a \in DOMAIN ctor.distributions |-> ctor.distributions[a].mean]

\* C11: regret(r) is the maximum over the arms of the mean recorded at
\* construction, minus r, after any number of reward, true_reward and regret
\* calls: the stored means and the best mean stay what they were at
\* construction, and true_reward(a) is true_rewards[a] for every arm a.
C11_RegretFromFixedMeans ==
    /\ env.means = ConstructionMeans
    /\ env.best_reward = Max(ConstructionMeans)
    /\ (last.op = "regret" =>
           /\ last.raised = "none"
           /\ last.ret = Some(Max(ConstructionMeans) - Val(last.reward)))
    /\ (last.op = "true_reward" /\ ~IsSequence(Val(last.arm))
            /\ Val(Val(last.arm).at) \in Arms(EnvArms(env)) =>
           /\ last.raised = "none"
           /\ last.ret = Some(env.means[Val(Val(last.arm).at)])
           /\ last.ret = Some(ConstructionMeans[Val(Val(last.arm).at)]))

\* regret(0) = 1 on the environment of means 0 and 1, asked after other calls.
C11_Witness ==
    /\ last.op = "regret"
    /\ pulls >= 3
    /\ EnvArms(env) = 2
    /\ ConstructionMeans[0] = 0
    /\ ConstructionMeans[1] = 1
    /\ last.reward = Some(0)
    /\ last.ret = Some(1)

(***************************************************************************)
(* An experiment over an environment of a finite resource, which stops     *)
(* accepting inputs once the resource is spent.                            *)
(***************************************************************************)
MaxBudget == 3

FullInformationEnvironments ==
    {AdversarialInit("full_information", adv) : adv \in Adversaries}

\* The experiments that can be built over an environment.
ExperimentsOver(e, b) ==
    IF e.kind = "stochastic"
    THEN {ExperimentInit("MultiArmedStochasticExperiment", e, b)}
    ELSE IF e.kind = "adversarial"
    THEN {ExperimentInit("MultiArmedAdversarialExperiment", e, b)}
    ELSE {BaseExperimentInit(kind, e, b) :
             kind \in {"FullInformationExperiment", "SemiBanditFeedbackExperiment"}}

InitLim ==
    /\ ctor \in CtorArgsExp
    /\ bandit = Construct(ctor)
    /\ \E e \in StochasticEnvironments \cup AdversarialEnvironments
                   \cup FullInformationEnvironments, k \in 0 .. MaxBudget :
          /\ EnvArms(e) = bandit.n_arms
          /\ env = Limited(e, k)
    /\ experiment \in ExperimentsOver(env, bandit)
    /\ last = [op |-> "init", n |-> 0, before |-> 0, budget |-> env.remaining,
               ret |-> None, raised |-> "none", calls |-> <<>>]
    /\ pulls = 0
    /\ commit_totals = None
    /\ decided = None

LimRound ==
    /\ \E o \in RoundOf(experiment, bandit, env) :
          /\ bandit' = o.bandit
          /\ env' = o.env
          /\ pulls' = o.bandit.current_round
          /\ last' = [op |-> "round", n |-> 1, before |-> bandit.current_round,
                      budget |-> env.remaining, ret |-> o.ret, raised |-> o.raised,
                      calls |-> o.calls]
    /\ UNCHANGED <<ctor, experiment, commit_totals, decided>>

LimRounds ==
    /\ \E n \in -1 .. MaxBudget + 1 : \E o \in Rounds(experiment, bandit, env, n) :
          /\ bandit' = o.bandit
          /\ env' = o.env
          /\ pulls' = o.bandit.current_round
          /\ last' = [op |-> "rounds", n |-> n, before |-> bandit.current_round,
                      budget |-> env.remaining, ret |-> o.ret, raised |-> o.raised,
                      calls |-> <<>>]
    /\ UNCHANGED <<ctor, experiment, commit_totals, decided>>

NextLim == LimRound \/ LimRounds

SpecLim == InitLim /\ [][NextLim]_vars

(***************************************************************************)
(* Properties of the experiments over an exhaustible environment           *)
(***************************************************************************)
\* C14: a round() of any experiment whose environment may stop accepting
\* inputs and will not accept one fails with
\* EnvironmentNoMoreAcceptingInputsException before bandit.pull is called:
\* the bandit and the environment are what they were before the call.
C14_RefusedRoundChangesNothing ==
    [][(last'.op = "round" /\ MayStopAcceptingInputs(env) /\ ~WillAcceptInput(env)) =>
          /\ last'.raised = "EnvironmentNoMoreAcceptingInputsException"
          /\ last'.calls = <<>>
          /\ bandit' = bandit
          /\ env' = env]_vars

\* A round refused after two rounds spent the resource.
C14_Witness ==
    /\ last.op = "round"
    /\ last.raised = "EnvironmentNoMoreAcceptingInputsException"
    /\ experiment.kind = "MultiArmedStochasticExperiment"
    /\ bandit.current_round = 2
    /\ env.remaining = 0

\* The regret of round t (from 1) of an ExploreThenCommitBandit on
\* deterministic rewards, and the sum over the k rounds after round from.
RoundRegret(t) ==
    IF t <= ctor.n_arms * bandit.n_epochs THEN Gap((t - 1) % ctor.n_arms) ELSE 0

RegretOfRounds(from, k) == Sum([i \in 0 .. k - 1 |-> RoundRegret(from + 1 + i)], k)

\* C15: rounds(n) never propagates the environment-exhausted condition: with
\* an environment that stops accepting inputs after k < n rounds it performs
\* those k rounds and returns the sum of their regrets (0 when k = 0), with no
\* pull and no reward after exhaustion.
C15_RoundsStopsAtExhaustion ==
    last.op = "rounds" =>
        /\ last.raised # "EnvironmentNoMoreAcceptingInputsException"
        /\ (last.budget < last.n /\ last.budget = 0 =>
               /\ last.raised = "none"
               /\ last.ret = Some(0)
               /\ bandit.current_round = last.before
               /\ env.remaining = 0)
        /\ (last.budget < last.n /\ experiment.kind \in {"MultiArmedStochasticExperiment",
                                                          "MultiArmedAdversarialExperiment"} =>
               /\ last.raised = "none"
               /\ bandit.current_round = last.before + last.budget
               /\ env.remaining = 0
               /\ (DeterministicEnvironment =>
                      last.ret = Some(RegretOfRounds(last.before, last.budget))))

\* rounds(4) with a resource of three rounds, on rewards 0 and 1 and one
\* epoch: three rounds are made and the regret is 1.
C15_Witness ==
    /\ last.op = "rounds"
    /\ last.n = 4
    /\ last.budget = 3
    /\ last.before = 0
    /\ env.kind = "stochastic"
    /\ DeterministicEnvironment
    /\ ctor.n_arms = 2
    /\ bandit.n_epochs = 1
    /\ ArmRewards[0] = 0
    /\ ArmRewards[1] = 1
    /\ bandit.current_round = 3
    /\ last.ret = Some(1)

(***************************************************************************)
(* LinUCB, the non-contextual player of bandits/linear.py                  *)
(***************************************************************************)
\* LinUCB.__init__
LinUCBInit(n_arms) ==
    [n_arms |-> n_arms,
     arm_counts |-> AccumulatorInit(n_arms).arm_counts,
     total_rewards |-> AccumulatorInit(n_arms).total_rewards,
     current_round |-> 0]

\* max(range(n_arms), key=lambda arm: estimated_rewards[arm]): the first arm
\* of maximal total_rewards[arm] / arm_counts[arm], for positive counts.
BestEstimate(b) ==
    CHOOSE a \in Arms(b.n_arms) :
        /\ \A c \in Arms(b.n_arms) :
              b.total_rewards[c] * b.arm_counts[a] <= b.total_rewards[a] * b.arm_counts[c]
        /\ \A c \in Arms(b.n_arms) :
              c < a => b.total_rewards[c] * b.arm_counts[a] < b.total_rewards[a] * b.arm_counts[c]

\* LinUCB.pull: the round counter is advanced first; the division by the
\* count of an arm that has none raises ZeroDivisionError.
LinUCBPull(b) ==
    LET r == b.current_round + 1
        advanced == [b EXCEPT !.current_round = r]
    IN IF r < b.n_arms
       THEN [bandit |-> advanced, ret |-> Some(r - 1), raised |-> "none"]
       ELSE IF \E a \in Arms(b.n_arms) : b.arm_counts[a] = 0
       THEN [bandit |-> advanced, ret |-> None, raised |-> "ZeroDivisionError"]
       ELSE [bandit |-> advanced, ret |-> Some(BestEstimate(b)), raised |-> "none"]

\* LinUCB.reward: Bandit comes before RewardAccumulatorMixin in the bases of
\* the class, so the method is Bandit.reward.
LinUCBReward(b, arm, reward) == [bandit |-> b, raised |-> "NotImplementedError"]

(***************************************************************************)
(* A LinUCB under any sequence of pull and reward calls, and of calls of   *)
(* RewardAccumulatorMixin.reward on it.                                    *)
(***************************************************************************)
\* The calls of RewardAccumulatorMixin.reward that returned: how many were
\* made with each arm argument and reward.
EmptyLog(n_arms) == [k \in (-1 .. n_arms - 1) \X Values |-> 0]
Logged(log, arm, reward) == [log EXCEPT ![<<arm, reward>>] = @ + 1]

InitLin ==
    /\ ctor \in {[n_arms |-> n] : n \in 1 .. MaxArms}
    /\ bandit = LinUCBInit(ctor.n_arms)
    /\ env = NoEnv
    /\ experiment = NoExperiment
    /\ last = [op |-> "init", arm |-> 0, reward |-> 0, ret |-> None, raised |-> "none",
               prev |-> bandit, log |-> EmptyLog(ctor.n_arms)]
    /\ pulls = 0
    /\ commit_totals = None
    /\ decided = None

LinPull ==
    /\ pulls < bandit.n_arms + MaxExtra
    /\ LET o == LinUCBPull(bandit)
       IN /\ bandit' = o.bandit
          /\ last' = [op |-> "pull", arm |-> 0, reward |-> 0, ret |-> o.ret,
                      raised |-> o.raised, prev |-> bandit, log |-> last.log]
    /\ pulls' = pulls + 1
    /\ UNCHANGED <<ctor, env, experiment, commit_totals, decided>>

LinReward ==
    /\ \E arm \in -1 .. bandit.n_arms, reward \in Values :
          LET o == LinUCBReward(bandit, arm, reward)
          IN /\ bandit' = o.bandit
             /\ last' = [op |-> "reward", arm |-> arm, reward |-> reward, ret |-> None,
                         raised |-> o.raised, prev |-> bandit, log |-> last.log]
    /\ UNCHANGED <<ctor, env, experiment, pulls, commit_totals, decided>>

\* RewardAccumulatorMixin.reward(bandit, arm, reward); the log keeps the
\* calls that returned.
LinRecord ==
    /\ Sum(bandit.arm_counts, bandit.n_arms) < MaxRewards
    /\ \E arm \in -1 .. bandit.n_arms, reward \in Values :
          LET o == AccumulatorReward(bandit, arm, reward)
          IN /\ bandit' = o.bandit
             /\ last' = [op |-> "record", arm |-> arm, reward |-> reward, ret |-> None,
                         raised |-> o.raised, prev |-> bandit,
                         log |-> IF o.raised = "none"
                                 THEN Logged(last.log, arm, reward)
                                 ELSE last.log]
    /\ UNCHANGED <<ctor, env, experiment, pulls, commit_totals, decided>>

NextLin == LinPull \/ LinReward \/ LinRecord

SpecLin == InitLin /\ [][NextLin]_vars

(***************************************************************************)
(* Properties of the accumulator and of LinUCB                             *)
(***************************************************************************)
\* The number of logged calls for arm a, and the sum of their rewards.
Recorded(log, a) ==
    [count |-> Sum([r \in Values |-> log[<<a, r>>]], MaxReward + 1),
     total |-> Sum([r \in Values |-> r * log[<<a, r>>]], MaxReward + 1)]

\* No logged call had an arm argument below 0.
InRange(log) == \A r \in Values : log[<<-1, r>>] = 0

\* C16: a fresh accumulator has counts and totals of length n_arms, all
\* zero; record(arm, reward) with 0 <= arm < n_arms adds 1 to counts[arm] and
\* reward to totals[arm] and leaves the other entries and the lengths as they
\* were, so counts[a] is the number of rewards recorded for a and totals[a]
\* their sum.
C16_AccumulatorCounts ==
    /\ DOMAIN bandit.arm_counts = Arms(ctor.n_arms)
    /\ DOMAIN bandit.total_rewards = Arms(ctor.n_arms)
    /\ (last.log = EmptyLog(ctor.n_arms) =>
           \A a \in Arms(ctor.n_arms) :
               bandit.arm_counts[a] = 0 /\ bandit.total_rewards[a] = 0)
    /\ (last.op = "record" /\ last.arm \in Arms(ctor.n_arms) =>
           /\ last.raised = "none"
           /\ bandit.arm_counts =
                  [last.prev.arm_counts EXCEPT ![last.arm] = @ + 1]
           /\ bandit.total_rewards =
                  [last.prev.total_rewards EXCEPT ![last.arm] = @ + last.reward])
    /\ (InRange(last.log) =>
           \A a \in Arms(ctor.n_arms) :
               /\ bandit.arm_counts[a] = Recorded(last.log, a).count
               /\ bandit.total_rewards[a] = Recorded(last.log, a).total)

\* Three rewards recorded for two arms.
C16_Witness ==
    /\ last.op = "record"
    /\ ctor.n_arms = 2
    /\ InRange(last.log)
    /\ Recorded(last.log, 0).count = 1
    /\ Recorded(last.log, 1).count = 2
    /\ bandit.arm_counts[0] = 1
    /\ bandit.arm_counts[1] = 2
    /\ bandit.total_rewards[1] = 1

\* C18: pull number i of the non-contextual LinUCB, for 1 <= i <= n_arms,
\* returns arm i - 1, and no pull in that window fails.
C18_ColdStartPlaysEachArm ==
    (last.op = "pull" /\ pulls <= ctor.n_arms) =>
        /\ last.raised = "none"
        /\ last.ret = Some(pulls - 1)

\* C19: reward(arm, value) on the non-contextual LinUCB with
\* 0 <= arm < n_arms completes without error, adds one to arm_counts[arm]
\* and value to total_rewards[arm].
C19_RewardUpdatesAccumulator ==
    (last.op = "reward" /\ last.arm \in Arms(ctor.n_arms)) =>
        /\ last.raised = "none"
        /\ bandit.arm_counts[last.arm] = last.prev.arm_counts[last.arm] + 1
        /\ bandit.total_rewards[last.arm] = last.prev.total_rewards[last.arm] + last.reward

(***************************************************************************)
(* LinUCB, the contextual player of bandits/contextual.py                  *)
(*                                                                         *)
(* A context of shape (d,) is a sequence of d numbers, the matrix A of an  *)
(* arm is a function over (1 .. d) \X (1 .. d) and its vector b, of shape   *)
(* (d, 1), a sequence of d numbers.                                        *)
(***************************************************************************)
MaxContext == 1
MaxGrowth == 2

\* The numbers of features: with one feature the numpy expressions of pull
\* and reward are defined, with more they are not.
FeatureCounts == {1, 2}

\* np.identity(d), np.zeros((d, 1)) and x @ y for two vectors
Identity(d) == [k \in (1 .. d) \X (1 .. d) |-> IF k[1] = k[2] THEN 1 ELSE 0]
Zeros(d) == [i \in 1 .. d |-> 0]
Dot(x, y) == Sum([i \in 0 .. Len(x) - 1 |-> x[i + 1] * y[i + 1]], Len(x))

\* LinUCB.__init__
ContextualInit(n_arms, n_features) ==
    [n_arms |-> n_arms,
     n_features |-> n_features,
     current_round |-> 0,
     estimate_A |-> [a \in Arms(n_arms) |-> Identity(n_features)],
     estimate_b |-> [a \in Arms(n_arms) |-> Zeros(n_features)]]

\* LinUCB._check_context: whether it raises AssertionError.
CheckContextRaises(b, context) ==
    context = None \/ Len(Val(context)) # b.n_features

\* floor(10^6 * sqrt(k)) for k = 1 .. 16
SqrtTable ==
    <<1000000, 1414213, 1732050, 2000000, 2236067, 2449489, 2645751, 2828427,
      3000000, 3162277, 3316624, 3464101, 3605551, 3741657, 3872983, 4000000>>

\* With one feature, A = (a), b = (v) and a context (x), the index of an arm
\* is (v / a) * x + sqrt(x * x / a), that is x * (v + sqrt(a)) / a for x >= 0:
\* whether the index of arm i is greater than that of arm j.
GreaterIndex(b, i, j, x) ==
    LET ai == b.estimate_A[i][<<1, 1>>]
        aj == b.estimate_A[j][<<1, 1>>]
    IN /\ x > 0
       /\ (b.estimate_b[i][1] * 1000000 + SqrtTable[ai]) * aj
              > (b.estimate_b[j][1] * 1000000 + SqrtTable[aj]) * ai

\* max(range(n_arms), key=lambda arm: index[arm]): the first arm of maximal
\* index.
BestIndex(b, x) ==
    CHOOSE i \in Arms(b.n_arms) :
        /\ \A j \in Arms(b.n_arms) : ~GreaterIndex(b, j, i, x)
        /\ \A j \in Arms(b.n_arms) : j < i => GreaterIndex(b, i, j, x)

\* A pull that counts the round before it looks at the context.
ContextualPullChecksLate(b, context) ==
    LET r == b.current_round + 1
        advanced == [b EXCEPT !.current_round = r]
    IN IF CheckContextRaises(b, context)
       THEN [bandit |-> advanced, ret |-> None, raised |-> "AssertionError"]
       ELSE IF r < b.n_arms
       THEN [bandit |-> advanced, ret |-> Some(r - 1), raised |-> "none"]
       ELSE IF b.n_features # 1
       THEN [bandit |-> advanced, ret |-> None, raised |-> "ValueError"]
       ELSE [bandit |-> advanced, ret |-> Some(BestIndex(b, Val(context)[1])),
             raised |-> "none"]

\* LinUCB.pull: with more than one feature, estimated_params[arm] @ context
\* multiplies shapes (d, 1) and (d,) and raises ValueError.
ContextualPull(b, context) ==
    IF CheckContextRaises(b, context)
    THEN [bandit |-> b, ret |-> None, raised |-> "AssertionError"]
    ELSE LET r == b.current_round + 1
             advanced == [b EXCEPT !.current_round = r]
         IN IF r < b.n_arms
            THEN [bandit |-> advanced, ret |-> Some(r - 1), raised |-> "none"]
            ELSE IF b.n_features # 1
            THEN [bandit |-> advanced, ret |-> None, raised |-> "ValueError"]
            ELSE [bandit |-> advanced, ret |-> Some(BestIndex(b, Val(context)[1])),
                  raised |-> "none"]

\* LinUCB.reward: context @ context.T is the number x . x, added to every
\* entry of A; with more than one feature the in-place addition of an array
\* of shape (d,) to b, of shape (d, 1), raises ValueError.
ContextualReward(b, arm, reward, context) ==
    IF CheckContextRaises(b, context)
    THEN [bandit |-> b, raised |-> "AssertionError"]
    ELSE IF ~ValidIndex(b.n_arms, arm)
    THEN [bandit |-> b, raised |-> "IndexError"]
    ELSE LET p == Position(b.n_arms, arm)
             x == Val(context)
             grown == [b EXCEPT !.estimate_A[p] =
                                    [k \in DOMAIN @ |-> @[k] + Dot(x, x)]]
         IN IF b.n_features # 1
            THEN [bandit |-> grown, raised |-> "ValueError"]
            ELSE [bandit |-> [grown EXCEPT !.estimate_b[p][1] = @ + reward * x[1]],
                  raised |-> "none"]

(***************************************************************************)
(* A contextual LinUCB under any sequence of pull and reward calls.        *)
(***************************************************************************)
\* The context arguments: none, the vectors of d features, and vectors of
\* other lengths.
ContextArguments(d) ==
    {None, Some(<<>>), Some([i \in 1 .. d + 1 |-> 0])}
        \cup {Some(x) : x \in [1 .. d -> 0 .. MaxContext]}

\* What the reward calls have added to the matrices.
Growth(b) == Sum([a \in Arms(b.n_arms) |-> b.estimate_A[a][<<1, 1>>] - 1], b.n_arms)

InitCtx ==
    /\ ctor \in {[n_arms |-> n, n_features |-> d] : n \in 1 .. MaxArms, d \in FeatureCounts}
    /\ bandit = ContextualInit(ctor.n_arms, ctor.n_features)
    /\ env = NoEnv
    /\ experiment = NoExperiment
    /\ last = [op |-> "init", arm |-> 0, reward |-> 0, context |-> None, ret |-> None,
               raised |-> "none", prev |-> bandit]
    /\ pulls = 0
    /\ commit_totals = None
    /\ decided = None

CtxPull ==
    /\ bandit.current_round < bandit.n_arms + MaxExtra
    /\ \E context \in ContextArguments(bandit.n_features) :
          LET o == ContextualPull(bandit, context)
          IN /\ bandit' = o.bandit
             /\ pulls' = o.bandit.current_round
             /\ last' = [op |-> "pull", arm |-> 0, reward |-> 0, context |-> context,
                         ret |-> o.ret, raised |-> o.raised, prev |-> bandit]
    /\ UNCHANGED <<ctor, env, experiment, commit_totals, decided>>

CtxReward ==
    /\ Growth(bandit) < MaxGrowth
    /\ \E arm \in -1 .. bandit.n_arms, reward \in Values,
          context \in ContextArguments(bandit.n_features) :
          LET o == ContextualReward(bandit, arm, reward, context)
          IN /\ bandit' = o.bandit
             /\ last' = [op |-> "reward", arm |-> arm, reward |-> reward,
                         context |-> context, ret |-> None, raised |-> o.raised,
                         prev |-> bandit]
    /\ UNCHANGED <<ctor, env, experiment, pulls, commit_totals, decided>>

NextCtx == CtxPull \/ CtxReward

SpecCtx == InitCtx /\ [][NextCtx]_vars

(***************************************************************************)
(* Properties of the contextual LinUCB                                     *)
(***************************************************************************)
\* C20: given valid contexts, pull number i of the contextual LinUCB, for
\* 1 <= i <= n_arms, returns arm i - 1 whatever the contexts and the rewards
\* delivered, and only from pull n_arms + 1 on is the arm the one of maximal
\* confidence index.
C20_ContextualColdStart ==
    (last.op = "pull" /\ ~CheckContextRaises(last.prev, last.context)) =>
        /\ (pulls <= ctor.n_arms =>
               /\ last.raised = "none"
               /\ last.ret = Some(pulls - 1))
        /\ (pulls > ctor.n_arms /\ last.raised = "none" =>
               last.ret = Some(BestIndex(last.prev, Val(last.context)[1])))

\* C21: a pull or a reward of the contextual LinUCB given no context, or a
\* context whose number of components is not n_features, raises
\* AssertionError and leaves the round counter and the A and b of every arm
\* as they were before the call.
C21_InvalidContextChangesNothing ==
    (/\ last.op \in {"pull", "reward"}
     /\ (last.context = None \/ Len(Val(last.context)) # ctor.n_features)) =>
        /\ last.raised = "AssertionError"
        /\ bandit.current_round = last.prev.current_round
        /\ bandit.estimate_A = last.prev.estimate_A
        /\ bandit.estimate_b = last.prev.estimate_b

\* A pull without context and a reward with a context that is too long, each
\* after rounds were played and rewards were taken in.
C21_Witness ==
    /\ last.op \in {"pull", "reward"}
    /\ last.op = "pull" => last.context = None
    /\ last.op = "reward" => (last.context # None /\ Len(Val(last.context)) > ctor.n_features)
    /\ last.raised = "AssertionError"
    /\ bandit.current_round >= 2
    /\ Growth(bandit) >= 2

(***************************************************************************)
(* A BanditFeedbackExperiment whose bandit is the contextual LinUCB        *)
(***************************************************************************)
\* BanditFeedbackExperiment.round with a contextual LinUCB as its bandit:
\* self._bandit.pull() and self._bandit.reward(arm, reward) give the bandit
\* no context, which is the default None of both signatures.
ContextualRound(b, e) ==
    IF MayStopAcceptingInputs(e) /\ ~WillAcceptInput(e)
    THEN {Refused(b, e)}
    ELSE LET p == ContextualPull(b, None)
             pulled == <<Call("bandit.pull", None, None, p.ret)>>
         IN IF p.raised # "none"
            THEN {[bandit |-> p.bandit, env |-> e, ret |-> None, raised |-> p.raised,
                   calls |-> <<>>]}
            ELSE {IF r.raised # "none"
                  THEN [bandit |-> p.bandit, env |-> r.env, ret |-> None,
                        raised |-> r.raised, calls |-> pulled]
                  ELSE LET w == ContextualReward(p.bandit, Val(p.ret), Val(r.ret), None)
                           resolved == Append(pulled,
                                              Call("environment.reward", p.ret, None, r.ret))
                       IN IF w.raised # "none"
                          THEN [bandit |-> w.bandit, env |-> r.env, ret |-> None,
                                raised |-> w.raised, calls |-> resolved]
                          ELSE LET g == ExperimentRegret(r.env, Val(r.ret))
                               IN [bandit |-> w.bandit, env |-> r.env, ret |-> g.ret,
                                   raised |-> g.raised,
                                   calls |-> resolved \o
                                       <<Call("bandit.reward", p.ret, r.ret, None),
                                         Call("environment.regret", None, r.ret, g.ret)>>] :
                    r \in EnvReward(e, One(Val(p.ret)))}

InitCtxExp ==
    /\ ctor \in {[n_arms |-> n, n_features |-> d] : n \in 1 .. MaxArms, d \in FeatureCounts}
    /\ bandit = ContextualInit(ctor.n_arms, ctor.n_features)
    /\ env \in {e \in StochasticEnvironments \cup AdversarialEnvironments :
                   EnvArms(e) = ctor.n_arms}
    /\ experiment = BaseExperimentInit("BanditFeedbackExperiment", env, bandit)
    /\ last = [op |-> "init", arm |-> 0, reward |-> 0, context |-> None, ret |-> None,
               raised |-> "none", prev |-> bandit]
    /\ pulls = 0
    /\ commit_totals = None
    /\ decided = None

CtxExpRound ==
    /\ bandit.current_round < bandit.n_arms + MaxExtra
    /\ \E o \in ContextualRound(bandit, env) :
          /\ bandit' = o.bandit
          /\ env' = o.env
          /\ pulls' = o.bandit.current_round
          /\ last' = [op |-> "round", arm |-> 0, reward |-> 0, context |-> None,
                      ret |-> o.ret, raised |-> o.raised, prev |-> bandit]
    /\ UNCHANGED <<ctor, experiment, commit_totals, decided>>

\* The experiment's rounds, and the calls a program makes on the bandit it
\* holds.
NextCtxExp == CtxExpRound \/ CtxPull \/ CtxReward

SpecCtxExp == InitCtxExp /\ [][NextCtxExp]_vars

\* C22: a round of a BanditFeedbackExperiment whose bandit is the contextual
\* LinUCB completes and returns a regret.
C22_RoundDrivesContextualBandit ==
    last.op = "round" =>
        /\ last.raised = "none"
        /\ last.ret # None

(***************************************************************************)
(* Properties of the full-information round                                *)
(***************************************************************************)
\* C23: a round of a FullInformationExperiment that the environment accepts
\* completes, the environment having decided a vector v: the bandit is
\* handed v through rewards, and the round returns max(v) - v[arm] for the
\* arm that was pulled, whatever the number of arms.
C23_FullInformationRoundReturnsRegret ==
    (/\ last.op = "round"
     /\ experiment.kind = "FullInformationExperiment"
     /\ last.raised # "EnvironmentNoMoreAcceptingInputsException") =>
        /\ last.raised = "none"
        /\ Len(last.calls) = 4
        /\ last.calls[3].fn = "bandit.rewards"
        /\ last.ret = Some(Max(Val(env.last_rewards))
                               - Val(env.last_rewards)[Val(last.calls[1].ret)])

(***************************************************************************)
(* The feedback-shape experiments built directly over any environment and  *)
(* any bandit                                                              *)
(***************************************************************************)
FeedbackShapes ==
    {"BanditFeedbackExperiment", "SemiBanditFeedbackExperiment", "FullInformationExperiment"}

InitShape ==
    /\ ctor \in CtorArgsExp
    /\ bandit = Construct(ctor)
    /\ env \in StochasticEnvironments \cup AdversarialEnvironments
                   \cup FullInformationEnvironments
    /\ \E kind \in FeedbackShapes : experiment = BaseExperimentInit(kind, env, bandit)
    /\ last = [op |-> "init", ret |-> None, raised |-> "none", calls |-> <<>>]
    /\ pulls = 0
    /\ commit_totals = None
    /\ decided = None

ShapeRound ==
    /\ experiment.raised = "none"
    /\ pulls < MaxExtra
    /\ \E o \in RoundOf(experiment, bandit, env) :
          /\ bandit' = o.bandit
          /\ env' = o.env
          /\ last' = [op |-> "round", ret |-> o.ret, raised |-> o.raised, calls |-> o.calls]
    /\ pulls' = pulls + 1
    /\ UNCHANGED <<ctor, experiment, commit_totals, decided>>

NextShape == ShapeRound

SpecShape == InitShape /\ [][NextShape]_vars

\* C24: no BanditFeedbackExperiment, SemiBanditFeedbackExperiment or
\* FullInformationExperiment exists whose environment and bandit disagree on
\* n_arms: its construction fails with AssertionError.
C24_ShapesRequireEqualArms ==
    EnvArms(env) # bandit.n_arms => experiment.raised = "AssertionError"

(***************************************************************************)
(* Rewards outside the pull-then-reward protocol                           *)
(***************************************************************************)
\* The call that made this step rewarded another arm than the one the most
\* recent pull returned, or came before any pull.
OutOfProtocolReward == last'.op = "reward" /\ Some(last'.arm) # last'.pulled

\* C25 as stated: an out-of-protocol reward call on an
\* ExploreThenCommitBandit raises no error and changes neither arm_counts
\* nor total_rewards, in EXPLORE as in COMMIT.
C25_OutOfProtocolRewardIsNoOp ==
    [][OutOfProtocolReward =>
          /\ last'.raised = "none"
          /\ bandit'.arm_counts = bandit.arm_counts
          /\ bandit'.total_rewards = bandit.total_rewards]_vars

\* C25 amended: an out-of-protocol reward call raises no error and changes
\* nothing once the bandit has committed (current_round > n_arms * n_epochs),
\* whatever the arm index; before that, a call with 0 <= arm < n_arms raises
\* no error either but is recorded: arm_counts[arm] grows by one,
\* total_rewards[arm] by the reward, and no other entry changes.
C25_OutOfProtocolRewardByPhase ==
    [][OutOfProtocolReward =>
          /\ (bandit.current_round > bandit.n_arms * bandit.n_epochs =>
                 /\ last'.raised = "none"
                 /\ bandit' = bandit)
          /\ ((/\ bandit.current_round <= bandit.n_arms * bandit.n_epochs
               /\ last'.arm \in Arms(bandit.n_arms)) =>
                 /\ last'.raised = "none"
                 /\ bandit'.arm_counts =
                        [bandit.arm_counts EXCEPT ![last'.arm] = @ + 1]
                 /\ bandit'.total_rewards =
                        [bandit.total_rewards EXCEPT ![last'.arm] = @ + last'.reward])]_vars

\* After the first pull returned arm 0, a reward of 1 for arm 1 was recorded.
C25_Witness ==
    /\ ctor.n_arms = 2
    /\ last.op = "reward"
    /\ last.pulled = Some(0)
    /\ last.arm = 1
    /\ last.reward = 1
    /\ bandit.current_round = 1
    /\ bandit.arm_counts[1] = 1
    /\ bandit.total_rewards[1] = 1
    /\ bandit.arm_counts[0] = 0

(***************************************************************************)
(* Arm indices outside 0 .. n_arms - 1                                     *)
(***************************************************************************)
\* C26: recording a reward for an arm below 0 or not below n_arms fails and
\* leaves every count and every total as it was: no index out of range,
\* a negative one included, modifies an entry of the accumulator.
C26_OutOfRangeArmRejected ==
    (last.op = "record" /\ last.arm \notin Arms(ctor.n_arms)) =>
        /\ last.raised # "none"
        /\ bandit.arm_counts = last.prev.arm_counts
        /\ bandit.total_rewards = last.prev.total_rewards

(***************************************************************************)
(* The regret of a reward the adversarial environment has just returned    *)
(***************************************************************************)
\* C27: the regret the AdversarialMultiArmedEnvironment gives to the reward
\* it has just returned is never negative, whether the arm argument was one
\* index or a sequence of indices, and it is 0 when the one arm played has
\* the greatest reward of the round's vector.
C27_RegretOfReturnedRewardNotNegative ==
    (last.op = "reward" /\ last.raised = "none") =>
        LET g == AdversarialRegret(env, Val(last.ret))
            v == Val(env.last_rewards)
            arm == Val(last.arm)
        IN /\ g.raised = "none"
           /\ Val(g.ret) >= 0
           /\ ((~IsSequence(arm) /\ ArmReward(v, arm) = Max(v)) => Val(g.ret) = 0)

(***************************************************************************)
(* WeightedMajority of bandits/adversarial.py                              *)
(*                                                                         *)
(* A learning rate is a number of thousandths.                             *)
(***************************************************************************)
MaxHorizon == 3

\* floor(1000 * sqrt(8 * ln(n) / h)), row n = 1 .. 4, column h = 1 .. 5
EtaTable ==
    <<<<0, 0, 0, 0, 0>>,
      <<2354, 1665, 1359, 1177, 1053>>,
      <<2964, 2096, 1711, 1482, 1325>>,
      <<3330, 2354, 1922, 1665, 1489>>>>

\* math.sqrt(8 * math.log(n_arms) / horizon)
DerivedEta(n_arms, horizon) == EtaTable[n_arms][horizon]

\* A constructor that tests eta for truth, so that a rate of 0.0 counts as
\* missing.
WeightedMajorityInitTruthy(n_arms, eta, horizon) ==
    IF eta # None /\ Val(eta) # 0
    THEN [n_arms |-> n_arms, eta |-> eta, raised |-> "none"]
    ELSE IF horizon # None
    THEN [n_arms |-> n_arms, eta |-> Some(DerivedEta(n_arms, Val(horizon))),
          raised |-> "none"]
    ELSE [n_arms |-> n_arms, eta |-> None, raised |-> "AssertionError"]

\* WeightedMajority.__init__
WeightedMajorityInit(n_arms, eta, horizon) ==
    IF eta # None
    THEN [n_arms |-> n_arms, eta |-> eta, raised |-> "none"]
    ELSE IF horizon # None
    THEN [n_arms |-> n_arms, eta |-> Some(DerivedEta(n_arms, Val(horizon))),
          raised |-> "none"]
    ELSE [n_arms |-> n_arms, eta |-> None, raised |-> "AssertionError"]

\* WeightedMajority.pull and WeightedMajority.reward: both bodies are pass.
WeightedMajorityPull(b) == [bandit |-> b, ret |-> None, raised |-> "none"]
WeightedMajorityReward(b, arm, reward) == [bandit |-> b, raised |-> "none"]

\* The learning rates given to the constructor: 0.0 and 0.5.
Etas == {0, 500}

InitWM ==
    /\ ctor \in {[n_arms |-> n, eta |-> e, horizon |-> h] :
                    n \in 1 .. MaxArms,
                    e \in {None} \cup {Some(x) : x \in Etas},
                    h \in {None} \cup {Some(k) : k \in 1 .. MaxHorizon}}
    /\ bandit = WeightedMajorityInit(ctor.n_arms, ctor.eta, ctor.horizon)
    /\ env = NoEnv
    /\ experiment = NoExperiment
    /\ last = [op |-> "init", arm |-> 0, reward |-> 0, ret |-> None, raised |-> "none"]
    /\ pulls = 0
    /\ commit_totals = None
    /\ decided = None

WMPull ==
    /\ bandit.raised = "none"
    /\ pulls < MaxExtra
    /\ LET o == WeightedMajorityPull(bandit)
       IN /\ bandit' = o.bandit
          /\ last' = [op |-> "pull", arm |-> 0, reward |-> 0, ret |-> o.ret,
                      raised |-> o.raised]
    /\ pulls' = pulls + 1
    /\ UNCHANGED <<ctor, env, experiment, commit_totals, decided>>

WMReward ==
    /\ bandit.raised = "none"
    /\ pulls < MaxExtra
    /\ \E arm \in -1 .. bandit.n_arms, reward \in Values :
          LET o == WeightedMajorityReward(bandit, arm, reward)
          IN /\ bandit' = o.bandit
             /\ last' = [op |-> "reward", arm |-> arm, reward |-> reward, ret |-> None,
                         raised |-> o.raised]
    /\ pulls' = pulls + 1
    /\ UNCHANGED <<ctor, env, experiment, commit_totals, decided>>

NextWM == WMPull \/ WMReward

SpecWM == InitWM /\ [][NextWM]_vars

\* floor(10^6 * ln(n)) for n = 1 .. 4
LnMicro == <<0, 693147, 1098612, 1386294>>

\* e thousandths is sqrt(8 * ln(n) / h) cut to a thousandth.
IsDerivedRate(e, n, h) ==
    /\ e >= 0
    /\ e * e * h <= 8 * (LnMicro[n] + 1)
    /\ (e + 1) * (e + 1) * h > 8 * LnMicro[n]

\* C28: a WeightedMajority given an eta is built with that eta as its
\* learning rate, whether a horizon is given or not; given a horizon alone it
\* is built with the rate sqrt(8 * ln(n_arms) / horizon); its construction
\* fails with AssertionError exactly when neither is given.
C28_WeightedMajorityConstruction ==
    /\ (ctor.eta # None => (bandit.raised = "none" /\ bandit.eta = ctor.eta))
    /\ ((ctor.eta = None /\ ctor.horizon # None) =>
           /\ bandit.raised = "none"
           /\ bandit.eta # None
           /\ IsDerivedRate(Val(bandit.eta), ctor.n_arms, Val(ctor.horizon)))
    /\ (bandit.raised = "AssertionError" <=> (ctor.eta = None /\ ctor.horizon = None))
    /\ bandit.raised \in {"none", "AssertionError"}

\* Two arms and a horizon of 2 with no eta: the rate is 1.665, and it is
\* still there after a pull and a reward.
C28_Witness ==
    /\ ctor.eta = None
    /\ ctor.horizon = Some(2)
    /\ ctor.n_arms = 2
    /\ bandit.eta = Some(1665)
    /\ pulls = 2
    /\ last.op = "reward"

(***************************************************************************)
(* The estimates of the contextual LinUCB                                  *)
(***************************************************************************)
\* C29: the contextual LinUCB starts with the identity as A and the zero
\* vector as b for every arm, and reward(arm, value, context) with a context
\* of n_features components and 0 <= arm < n_arms adds context[i] *
\* context[j] to entry (i, j) of that arm's A and value * context[i] to
\* entry i of its b, for any number of features, leaving the A and b of the
\* other arms as they were.
C29_RewardAddsOuterProduct ==
    /\ (last.op = "init" =>
           \A a \in Arms(ctor.n_arms) :
               /\ bandit.estimate_A[a] = Identity(ctor.n_features)
               /\ bandit.estimate_b[a] = Zeros(ctor.n_features))
    /\ ((/\ last.op = "reward"
         /\ last.context # None
         /\ Len(Val(last.context)) = ctor.n_features
         /\ last.arm \in Arms(ctor.n_arms)) =>
           LET x == Val(last.context)
           IN /\ last.raised = "none"
              /\ \A k \in (1 .. ctor.n_features) \X (1 .. ctor.n_features) :
                     bandit.estimate_A[last.arm][k] =
                         last.prev.estimate_A[last.arm][k] + x[k[1]] * x[k[2]]
              /\ \A i \in 1 .. ctor.n_features :
                     bandit.estimate_b[last.arm][i] =
                         last.prev.estimate_b[last.arm][i] + last.reward * x[i]
              /\ \A a \in Arms(ctor.n_arms) \ {last.arm} :
                     /\ bandit.estimate_A[a] = last.prev.estimate_A[a]
                     /\ bandit.estimate_b[a] = last.prev.estimate_b[a])

(***************************************************************************)
(* The number of epochs computed from the gap and the horizon              *)
(***************************************************************************)
\* C30: an ExploreThenCommitBandit given both a gap and a horizon explores
\* for max(1, ceil((4 / gap^2) * ln(horizon * gap^2 / 4))) epochs, whatever
\* n_epochs it is given as well: at least one epoch, four for a gap of 1.0
\* and a horizon of 10, so that with two arms the first eight pulls go round
\* the arms and the ninth commits.
C30_ComputedEpochs ==
    (ctor.gap # None /\ ctor.horizon # None) =>
        LET g2 == Val(ctor.gap) * Val(ctor.gap)
            q == Val(ctor.horizon) * g2
            E == bandit.n_epochs
        IN /\ E >= 1
           /\ q * q * q * q <= ExpTable[E * g2]
           /\ (E > 1 => q * q * q * q > ExpTable[(E - 1) * g2])
           /\ ((ctor.gap = Some(1) /\ ctor.horizon = Some(10)) =>
                  /\ E = 4
                  /\ (ctor.n_arms = 2 =>
                         /\ (pulls <= 8 => bandit.best_arm = None)
                         /\ (pulls > 8 => bandit.best_arm # None)
                         /\ ((last.op = "pull" /\ pulls <= 8) =>
                                last.ret = Some((pulls - 1) % 2))))
           /\ ((ctor.gap = Some(1) /\ ctor.horizon = Some(3)) => E = 1)
           /\ ((ctor.gap = Some(2) /\ ctor.horizon = Some(10)) => E = 3)

\* A bandit of two arms given n_epochs = 1, a gap of 1.0 and a horizon of 10
\* has committed at its ninth pull.
C30_Witness ==
    /\ ctor.n_arms = 2
    /\ ctor.n_epochs = Some(1)
    /\ ctor.gap = Some(1)
    /\ ctor.horizon = Some(10)
    /\ bandit.n_epochs = 4
    /\ pulls = 9
    /\ last.op = "pull"
    /\ bandit.best_arm # None

(***************************************************************************)
(* The phases and the frame of the ExploreThenCommitBandit                 *)
(***************************************************************************)
\* C31: under any interleaving of pull and reward calls, the committed arm
\* of an ExploreThenCommitBandit is unset exactly while the round counter is
\* at most n_arms * n_epochs; the accumulator changes only in steps taken
\* from a state without committed arm, and a committed arm is never
\* replaced.
C31_CommittedIffPastExploration ==
    /\ [](bandit.best_arm = None <=>
              bandit.current_round <= bandit.n_arms * bandit.n_epochs)
    /\ [][/\ ((\/ bandit'.arm_counts # bandit.arm_counts
               \/ bandit'.total_rewards # bandit.total_rewards) =>
                 bandit.best_arm = None)
          /\ (bandit.best_arm # None => bandit'.best_arm = bandit.best_arm)]_vars

\* A committed bandit of two arms, two pulls after its exploration of one
\* epoch, that took in a reward for each arm while it explored and was given
\* another reward since.
C31_Witness ==
    /\ ctor.n_arms = 2
    /\ bandit.n_epochs = 1
    /\ bandit.current_round = 4
    /\ bandit.best_arm = Some(1)
    /\ bandit.arm_counts[0] = 1
    /\ bandit.arm_counts[1] = 1
    /\ last.op = "reward"
    /\ last.raised = "none"

\* C32: a pull adds exactly one to the round counter and leaves arm_counts
\* and total_rewards alone, a reward leaves the round counter and the
\* committed arm alone, so the round counter is the number of pull calls
\* made so far and never decreases.
C32_FrameOfPullAndReward ==
    /\ [](bandit.current_round = pulls)
    /\ [][/\ (last'.op = "pull" =>
                 /\ bandit'.current_round = bandit.current_round + 1
                 /\ bandit'.arm_counts = bandit.arm_counts
                 /\ bandit'.total_rewards = bandit.total_rewards)
          /\ (last'.op = "reward" =>
                 /\ bandit'.current_round = bandit.current_round
                 /\ bandit'.best_arm = bandit.best_arm)
          /\ bandit'.current_round >= bandit.current_round]_vars

\* Three pulls with rewards in between and after: the counter is 3 and the
\* three rewards are in the accumulator.
C32_Witness ==
    /\ ctor.n_arms = 2
    /\ bandit.n_epochs = 2
    /\ pulls = 3
    /\ bandit.current_round = 3
    /\ last.op = "reward"
    /\ bandit.arm_counts[0] = 2
    /\ bandit.arm_counts[1] = 1
    /\ bandit.best_arm = None

(***************************************************************************)
(* The number of rounds that rounds(n) performs                            *)
(***************************************************************************)
\* The rounds asked for that the resource of the environment allows.
RoundsDue == IF last.n <= 0 THEN 0
             ELSE IF last.n <= last.budget THEN last.n ELSE last.budget

\* C33: rounds(n) returns after exactly min(n, k) rounds, k being the number
\* of rounds the environment accepts before it reports that it will accept
\* no input: the bandit was pulled and the environment asked that many
\* times, and for n <= 0 no round is made and the value returned is 0.
C33_RoundsPerformsDueRounds ==
    last.op = "rounds" =>
        /\ last.raised = "none"
        /\ bandit.current_round = last.before + RoundsDue
        /\ env.remaining = last.budget - RoundsDue
        /\ (last.n <= 0 => last.ret = Some(0))

====
